---- MODULE Spec2Model ----
(***************************************************************************)
(* Model of iterator() in iterator.py: the driver loop that repeatedly     *)
(* applies a step function, optionally tracking samples every trackint     *)
(* steps and optionally stopping on an exit condition.                     *)
(*                                                                         *)
(* Optional Python values (None / unbound local) are sequences of length   *)
(* 0 or 1: <<>> is None / unbound, <<v>> is the value v.  Arrays are       *)
(* sequences; the Python index k is position k+1.                          *)
(***************************************************************************)
EXTENDS Integers, Sequences, FiniteSets, TLC

VARIABLES t, y, nmax, exitcond, trackint,
          pc, i, iter, j, ntrack, t_arr, y_arr,
          outcome, ncalls, evals, fired, tailran, lastop, t0, y0

vars == <<t, y, nmax, exitcond, trackint, pc, i, iter, j, ntrack, t_arr,
          y_arr, outcome, ncalls, evals, fired, tailran, lastop, t0, y0>>

\* ---- bounds of the explored inputs ----
MaxN == 4
MaxTrackint == 3
MaxT0 == 1
MaxY0 == 1
ExitMaxT == 4

None == <<>>
Some(v) == <<v>>
IsNone(x) == x = <<>>
Val(x) == x[1]

\* Contents an np.empty cell may hold before it is assigned.
Garbage == {-1, 1}

\* The advance operation returned by setstep(f, method, h): a pure function
\* of (t, y).  Time moves forward by one step, the state follows a map that
\* is neither the identity nor injective.
step(tt, yy) == <<tt + 1, (2 * yy + 1) % 5>>

\* exitcond(t, y): a pure predicate over a sample, here membership of the
\* sample's time in a caller-chosen set.
ExitHolds(tt, yy) == tt \in Val(exitcond)

\* np.empty(n): n cells of unspecified content.
NpEmpty(n, g) == [k \in 1..n |-> g]

\* arr[k] = v
SetItem(arr, k, v) == [arr EXCEPT ![k + 1] = v]

\* Whether index k is a legal index of arr.
InBounds(arr, k) == k >= 0 /\ k < Len(arr)

\* np.delete(arr, range(lo, hi), 0): whether some index is out of bounds.
NpDeleteOOB(arr, lo, hi) == \E k \in lo..(hi - 1) : ~InBounds(arr, k)

RECURSIVE KeepFrom(_, _, _, _)
KeepFrom(arr, k, lo, hi) ==
    IF k >= Len(arr) THEN <<>>
    ELSE IF k >= lo /\ k < hi THEN KeepFrom(arr, k + 1, lo, hi)
    ELSE <<arr[k + 1]>> \o KeepFrom(arr, k + 1, lo, hi)

\* np.delete(arr, range(lo, hi), 0): arr without the entries lo..hi-1.
NpDelete(arr, lo, hi) == KeepFrom(arr, 0, lo, hi)

OptInts(lo, hi) == {None} \cup {Some(v) : v \in lo..hi}

Init ==
    /\ t \in 0..MaxT0
    /\ y \in 0..MaxY0
    /\ t0 = t
    /\ y0 = y
    /\ nmax \in 0..MaxN
    /\ exitcond \in {None} \cup {Some(S) : S \in SUBSET (0..ExitMaxT)}
    /\ trackint \in OptInts(-MaxTrackint, MaxTrackint)
    /\ pc = "start"
    /\ i = None
    /\ iter = 0
    /\ j = 0
    /\ ntrack = 0
    /\ t_arr = <<>>
    /\ y_arr = <<>>
    /\ outcome = "running"
    /\ ncalls = 0
    /\ evals = <<>>
    /\ fired = None
    /\ tailran = FALSE
    /\ lastop = "none"

inputs == <<nmax, exitcond, trackint, t0, y0>>

\* arr[k]
GetItem(arr, k) == arr[k + 1]

\* Dispatch with the first test written as a truth test on trackint, so that
\* trackint = 0 is taken for "tracking disabled".
Dispatch_Falsy ==
    /\ pc = "start"
    /\ pc' = IF IsNone(trackint) \/ trackint = Some(0)
               THEN (IF IsNone(exitcond) THEN "nt_loop" ELSE "ntx_loop")
             ELSE IF Val(trackint) = 1 THEN "t1_setup"
             ELSE IF Val(trackint) > 1 THEN "tn_setup"
             ELSE "invalid"
    /\ iter' = 0
    /\ lastop' = "dispatch"
    /\ UNCHANGED <<t, y, inputs, i, j, ntrack, t_arr, y_arr, outcome,
                   ncalls, evals, fired, tailran>>

\* The if / elif chain on trackint, after step = setstep(f, method, h).
Dispatch ==
    /\ pc = "start"
    /\ pc' = IF IsNone(trackint)
               THEN (IF IsNone(exitcond) THEN "nt_loop" ELSE "ntx_loop")
             ELSE IF Val(trackint) = 1 THEN "t1_setup"
             ELSE IF Val(trackint) > 1 THEN "tn_setup"
             ELSE "invalid"
    /\ iter' = 0
    /\ lastop' = "dispatch"
    /\ UNCHANGED <<t, y, inputs, i, j, ntrack, t_arr, y_arr, outcome,
                   ncalls, evals, fired, tailran>>

\* ---------------- tracking disabled ----------------

\* for i in range(nmax): t, y = step(t, y)
NoTrackNoExit ==
    /\ pc = "nt_loop"
    /\ iter < nmax
    /\ i' = Some(iter)
    /\ iter' = iter + 1
    /\ t' = step(t, y)[1]
    /\ y' = step(t, y)[2]
    /\ ncalls' = ncalls + 1
    /\ lastop' = "step"
    /\ UNCHANGED <<inputs, pc, j, ntrack, t_arr, y_arr, outcome, evals,
                   fired, tailran>>

\* NoTrackExit with the exit condition evaluated on the sample the step
\* started from instead of the one it produced.
NoTrackExit_Stale ==
    /\ pc = "ntx_loop"
    /\ iter < nmax
    /\ LET s == step(t, y)
           hit == ExitHolds(t, y)
       IN /\ i' = Some(iter)
          /\ iter' = iter + 1
          /\ t' = s[1]
          /\ y' = s[2]
          /\ ncalls' = ncalls + 1
          /\ evals' = Append(evals, [n |-> ncalls, t |-> t, y |-> y])
          /\ fired' = IF hit THEN Some(iter + 1) ELSE fired
          /\ pc' = IF hit THEN "nt_ret" ELSE pc
    /\ lastop' = "eval"
    /\ UNCHANGED <<inputs, j, ntrack, t_arr, y_arr, outcome, tailran>>

\* for i in range(nmax): t, y = step(t, y); if exitcond(t, y): break
NoTrackExit ==
    /\ pc = "ntx_loop"
    /\ iter < nmax
    /\ LET s == step(t, y)
           hit == ExitHolds(s[1], s[2])
       IN /\ i' = Some(iter)
          /\ iter' = iter + 1
          /\ t' = s[1]
          /\ y' = s[2]
          /\ ncalls' = ncalls + 1
          /\ evals' = Append(evals, [n |-> ncalls + 1, t |-> s[1], y |-> s[2]])
          /\ fired' = IF hit THEN Some(iter + 1) ELSE fired
          /\ pc' = IF hit THEN "nt_ret" ELSE pc
    /\ lastop' = "eval"
    /\ UNCHANGED <<inputs, j, ntrack, t_arr, y_arr, outcome, tailran>>

\* return t, y
NoTrackReturn ==
    /\ \/ pc \in {"nt_loop", "ntx_loop"} /\ iter >= nmax
       \/ pc = "nt_ret"
    /\ pc' = "done"
    /\ outcome' = "FinalState"
    /\ lastop' = "return"
    /\ UNCHANGED <<t, y, inputs, i, iter, j, ntrack, t_arr, y_arr, ncalls,
                   evals, fired, tailran>>

\* ---------------- trackint == 1 ----------------

\* Track1Capacity one cell short: np.empty(nmax).
Track1Capacity_Short == nmax

\* Capacity of the tracking arrays when every step is tracked.
Track1Capacity == nmax + 1

\* t_arr = np.empty(nmax+1); ...; t_arr[0] = t; y_arr[0, :] = y; del t, y
\* (t and y are not read again in this branch).
Setup1 ==
    /\ pc = "t1_setup"
    /\ \E g \in Garbage :
         /\ t_arr' = SetItem(NpEmpty(Track1Capacity, g), 0, t)
         /\ y_arr' = SetItem(NpEmpty(Track1Capacity, g), 0, y)
    /\ iter' = 1
    /\ pc' = IF IsNone(exitcond) THEN "t1_loop" ELSE "t1x_loop"
    /\ lastop' = "setup"
    /\ UNCHANGED <<t, y, inputs, i, j, ntrack, outcome, ncalls, evals,
                   fired, tailran>>

\* for i in range(1, nmax+1):
\*     t_arr[i], y_arr[i, :] = step(t_arr[i-1], y_arr[i-1, :])
Track1NoExit ==
    /\ pc = "t1_loop"
    /\ iter < nmax + 1
    /\ LET s == step(GetItem(t_arr, iter - 1), GetItem(y_arr, iter - 1))
       IN /\ i' = Some(iter)
          /\ iter' = iter + 1
          /\ ncalls' = ncalls + 1
          /\ IF InBounds(t_arr, iter)
               THEN /\ t_arr' = SetItem(t_arr, iter, s[1])
                    /\ y_arr' = SetItem(y_arr, iter, s[2])
                    /\ UNCHANGED <<pc, outcome>>
               ELSE /\ pc' = "done"
                    /\ outcome' = "IndexError"
                    /\ UNCHANGED <<t_arr, y_arr>>
    /\ lastop' = "record"
    /\ UNCHANGED <<t, y, inputs, j, ntrack, evals, fired, tailran>>

\* for i in range(1, nmax+1):
\*     t_arr[i], y_arr[i, :] = step(t_arr[i-1], y_arr[i-1, :])
\*     if exitcond(t_arr[i], y_arr[i, :]):
\*         t_arr = np.delete(t_arr, range(i+1, nmax+1), 0); ...; break
Track1Exit ==
    /\ pc = "t1x_loop"
    /\ iter < nmax + 1
    /\ LET s == step(GetItem(t_arr, iter - 1), GetItem(y_arr, iter - 1))
           hit == ExitHolds(s[1], s[2])
           ta == SetItem(t_arr, iter, s[1])
           ya == SetItem(y_arr, iter, s[2])
       IN /\ i' = Some(iter)
          /\ iter' = iter + 1
          /\ ncalls' = ncalls + 1
          /\ IF ~InBounds(t_arr, iter)
               THEN /\ pc' = "done"
                    /\ outcome' = "IndexError"
                    /\ UNCHANGED <<t_arr, y_arr, evals, fired>>
               ELSE /\ evals' = Append(evals,
                                  [n |-> ncalls + 1, t |-> s[1], y |-> s[2]])
                    /\ fired' = IF hit THEN Some(iter) ELSE fired
                    /\ \E strict \in BOOLEAN :
                         IF hit /\ strict /\ NpDeleteOOB(ta, iter + 1, nmax + 1)
                           THEN /\ pc' = "done"
                                /\ outcome' = "IndexError"
                                /\ t_arr' = ta
                                /\ y_arr' = ya
                           ELSE /\ pc' = IF hit THEN "t1_ret" ELSE pc
                                /\ outcome' = outcome
                                /\ t_arr' = IF hit
                                              THEN NpDelete(ta, iter + 1, nmax + 1)
                                              ELSE ta
                                /\ y_arr' = IF hit
                                              THEN NpDelete(ya, iter + 1, nmax + 1)
                                              ELSE ya
    /\ lastop' = "eval"
    /\ UNCHANGED <<t, y, inputs, j, ntrack, tailran>>

\* return t_arr, y_arr
Track1Return ==
    /\ \/ pc \in {"t1_loop", "t1x_loop"} /\ iter >= nmax + 1
       \/ pc = "t1_ret"
    /\ pc' = "done"
    /\ outcome' = "Trajectory"
    /\ lastop' = "return"
    /\ UNCHANGED <<t, y, inputs, i, iter, j, ntrack, t_arr, y_arr, ncalls,
                   evals, fired, tailran>>

\* ---------------- trackint > 1 ----------------

\* ntrack = 1 + (nmax+trackint-1)//trackint
NTrack == 1 + ((nmax + Val(trackint) - 1) \div Val(trackint))

\* range(nmax - (ntrack-2)*trackint): length of the trailing loop.
TailLen == nmax - (ntrack - 2) * Val(trackint)

\* t_arr = np.empty(ntrack+1); ...; t_arr[0] = t; y_arr[0, :] = y
SetupN ==
    /\ pc = "tn_setup"
    /\ ntrack' = NTrack
    /\ \E g \in Garbage :
         /\ t_arr' = SetItem(NpEmpty(NTrack + 1, g), 0, t)
         /\ y_arr' = SetItem(NpEmpty(NTrack + 1, g), 0, y)
    /\ iter' = 1
    /\ pc' = IF IsNone(exitcond) THEN "tn_outer" ELSE "tnx_outer"
    /\ lastop' = "setup"
    /\ UNCHANGED <<t, y, inputs, i, j, outcome, ncalls, evals, fired,
                   tailran>>

\* for i in range(1, ntrack): (no exit condition); falls through to the
\* trailing loop when the range is exhausted.
OuterN ==
    /\ pc = "tn_outer"
    /\ IF iter < ntrack
         THEN /\ i' = Some(iter)
              /\ iter' = iter + 1
              /\ pc' = "tn_inner"
         ELSE /\ pc' = "tn_tail"
              /\ UNCHANGED <<i, iter>>
    /\ j' = 0
    /\ lastop' = "for"
    /\ UNCHANGED <<t, y, inputs, ntrack, t_arr, y_arr, outcome, ncalls,
                   evals, fired, tailran>>

\* for j in range(trackint): t, y = step(t, y)
InnerN ==
    /\ pc = "tn_inner"
    /\ j < Val(trackint)
    /\ j' = j + 1
    /\ t' = step(t, y)[1]
    /\ y' = step(t, y)[2]
    /\ ncalls' = ncalls + 1
    /\ lastop' = "step"
    /\ UNCHANGED <<inputs, pc, i, iter, ntrack, t_arr, y_arr, outcome,
                   evals, fired, tailran>>

\* t_arr[i], y_arr[i, :] = t, y
RecordN ==
    /\ pc = "tn_inner"
    /\ j >= Val(trackint)
    /\ IF InBounds(t_arr, Val(i))
         THEN /\ t_arr' = SetItem(t_arr, Val(i), t)
              /\ y_arr' = SetItem(y_arr, Val(i), y)
              /\ pc' = "tn_outer"
              /\ UNCHANGED outcome
         ELSE /\ pc' = "done"
              /\ outcome' = "IndexError"
              /\ UNCHANGED <<t_arr, y_arr>>
    /\ lastop' = "record"
    /\ UNCHANGED <<t, y, inputs, i, iter, j, ntrack, ncalls, evals, fired,
                   tailran>>

\* for j in range(nmax - (ntrack-2)*trackint): t, y = step(t, y)
TailN ==
    /\ pc = "tn_tail"
    /\ j < TailLen
    /\ j' = j + 1
    /\ t' = step(t, y)[1]
    /\ y' = step(t, y)[2]
    /\ ncalls' = ncalls + 1
    /\ tailran' = TRUE
    /\ lastop' = "step"
    /\ UNCHANGED <<inputs, pc, i, iter, ntrack, t_arr, y_arr, outcome,
                   evals, fired>>

\* t_arr[i], y_arr[i, :] = t, y   (after the trailing loop; i is whatever
\* the main loop left, unbound if the main loop never iterated)
TailRecordN ==
    /\ pc = "tn_tail"
    /\ j >= TailLen
    /\ IF IsNone(i)
         THEN /\ pc' = "done"
              /\ outcome' = "UnboundLocalError"
              /\ UNCHANGED <<t_arr, y_arr>>
         ELSE IF InBounds(t_arr, Val(i))
           THEN /\ t_arr' = SetItem(t_arr, Val(i), t)
                /\ y_arr' = SetItem(y_arr, Val(i), y)
                /\ pc' = "tn_ret"
                /\ UNCHANGED outcome
           ELSE /\ pc' = "done"
                /\ outcome' = "IndexError"
                /\ UNCHANGED <<t_arr, y_arr>>
    /\ tailran' = TRUE
    /\ lastop' = "record"
    /\ UNCHANGED <<t, y, inputs, i, iter, j, ntrack, ncalls, evals, fired>>

\* for i in range(1, nmax+1): (exit condition present); the else clause of
\* the loop is entered when the range is exhausted.
OuterX ==
    /\ pc = "tnx_outer"
    /\ IF iter < nmax + 1
         THEN /\ i' = Some(iter)
              /\ iter' = iter + 1
              /\ pc' = "tnx_inner"
         ELSE /\ pc' = "tnx_tail"
              /\ UNCHANGED <<i, iter>>
    /\ j' = 0
    /\ lastop' = "for"
    /\ UNCHANGED <<t, y, inputs, ntrack, t_arr, y_arr, outcome, ncalls,
                   evals, fired, tailran>>

\* for j in range(trackint): t, y = step(t, y)
InnerX ==
    /\ pc = "tnx_inner"
    /\ j < Val(trackint)
    /\ j' = j + 1
    /\ t' = step(t, y)[1]
    /\ y' = step(t, y)[2]
    /\ ncalls' = ncalls + 1
    /\ lastop' = "step"
    /\ UNCHANGED <<inputs, pc, i, iter, ntrack, t_arr, y_arr, outcome,
                   evals, fired, tailran>>

\* t_arr[i], y_arr[i, :] = t, y
RecordX ==
    /\ pc = "tnx_inner"
    /\ j >= Val(trackint)
    /\ IF InBounds(t_arr, Val(i))
         THEN /\ t_arr' = SetItem(t_arr, Val(i), t)
              /\ y_arr' = SetItem(y_arr, Val(i), y)
              /\ pc' = "tnx_eval"
              /\ UNCHANGED outcome
         ELSE /\ pc' = "done"
              /\ outcome' = "IndexError"
              /\ UNCHANGED <<t_arr, y_arr>>
    /\ lastop' = "record"
    /\ UNCHANGED <<t, y, inputs, i, iter, j, ntrack, ncalls, evals, fired,
                   tailran>>

\* if exitcond(t_arr[i], y_arr[i, :]):
EvalX ==
    /\ pc = "tnx_eval"
    /\ LET tt == GetItem(t_arr, Val(i))
           yy == GetItem(y_arr, Val(i))
           hit == ExitHolds(tt, yy)
       IN /\ evals' = Append(evals, [n |-> ncalls, t |-> tt, y |-> yy])
          /\ fired' = IF hit THEN i ELSE fired
          /\ pc' = IF hit THEN "tnx_del" ELSE "tnx_outer"
    /\ lastop' = "eval"
    /\ UNCHANGED <<t, y, inputs, i, iter, j, ntrack, t_arr, y_arr, outcome,
                   ncalls, tailran>>

\* DeleteX with the trailing computation placed after the loop instead of
\* in its else clause, so that it also runs after a break.
DeleteX_NoElse ==
    /\ pc = "tnx_del"
    /\ \E strict \in BOOLEAN :
         IF strict /\ NpDeleteOOB(t_arr, Val(i) + 1, nmax + 1)
           THEN /\ pc' = "done"
                /\ outcome' = "IndexError"
                /\ UNCHANGED <<t_arr, y_arr>>
           ELSE /\ t_arr' = NpDelete(t_arr, Val(i) + 1, nmax + 1)
                /\ y_arr' = NpDelete(y_arr, Val(i) + 1, nmax + 1)
                /\ pc' = "tnx_tail"
                /\ UNCHANGED outcome
    /\ j' = 0
    /\ lastop' = "delete"
    /\ UNCHANGED <<t, y, inputs, i, iter, ntrack, ncalls, evals, fired,
                   tailran>>

\* t_arr = np.delete(t_arr, range(i+1, nmax+1), 0)
\* y_arr = np.delete(y_arr, range(i+1, nmax+1), 0)
\* break
\* An index past the end of the array is an IndexError in numpy >= 1.19 and
\* is ignored by older versions.
DeleteX ==
    /\ pc = "tnx_del"
    /\ \E strict \in BOOLEAN :
         IF strict /\ NpDeleteOOB(t_arr, Val(i) + 1, nmax + 1)
           THEN /\ pc' = "done"
                /\ outcome' = "IndexError"
                /\ UNCHANGED <<t_arr, y_arr>>
           ELSE /\ t_arr' = NpDelete(t_arr, Val(i) + 1, nmax + 1)
                /\ y_arr' = NpDelete(y_arr, Val(i) + 1, nmax + 1)
                /\ pc' = "tn_ret"
                /\ UNCHANGED outcome
    /\ lastop' = "delete"
    /\ UNCHANGED <<t, y, inputs, i, iter, j, ntrack, ncalls, evals, fired,
                   tailran>>

\* else: for j in range(nmax - (ntrack-2)*trackint): t, y = step(t, y)
TailX ==
    /\ pc = "tnx_tail"
    /\ j < TailLen
    /\ j' = j + 1
    /\ t' = step(t, y)[1]
    /\ y' = step(t, y)[2]
    /\ ncalls' = ncalls + 1
    /\ tailran' = TRUE
    /\ lastop' = "step"
    /\ UNCHANGED <<inputs, pc, i, iter, ntrack, t_arr, y_arr, outcome,
                   evals, fired>>

\* t_arr[i], y_arr[i, :] = t, y   (last statement of the loop's else clause)
TailRecordX ==
    /\ pc = "tnx_tail"
    /\ j >= TailLen
    /\ IF IsNone(i)
         THEN /\ pc' = "done"
              /\ outcome' = "UnboundLocalError"
              /\ UNCHANGED <<t_arr, y_arr>>
         ELSE IF InBounds(t_arr, Val(i))
           THEN /\ t_arr' = SetItem(t_arr, Val(i), t)
                /\ y_arr' = SetItem(y_arr, Val(i), y)
                /\ pc' = "tn_ret"
                /\ UNCHANGED outcome
           ELSE /\ pc' = "done"
                /\ outcome' = "IndexError"
                /\ UNCHANGED <<t_arr, y_arr>>
    /\ tailran' = TRUE
    /\ lastop' = "record"
    /\ UNCHANGED <<t, y, inputs, i, iter, j, ntrack, ncalls, evals, fired>>

\* return t_arr, y_arr
ReturnN ==
    /\ pc = "tn_ret"
    /\ pc' = "done"
    /\ outcome' = "Trajectory"
    /\ lastop' = "return"
    /\ UNCHANGED <<t, y, inputs, i, iter, j, ntrack, t_arr, y_arr, ncalls,
                   evals, fired, tailran>>

\* ---------------- invalid trackint ----------------

\* print(...); raise SystemExit
InvalidTrackint ==
    /\ pc = "invalid"
    /\ pc' = "done"
    /\ outcome' = "SystemExit"
    /\ lastop' = "raise"
    /\ UNCHANGED <<t, y, inputs, i, iter, j, ntrack, t_arr, y_arr, ncalls,
                   evals, fired, tailran>>

Next ==
    \/ Dispatch
    \/ NoTrackNoExit
    \/ NoTrackExit
    \/ NoTrackReturn
    \/ Setup1
    \/ Track1NoExit
    \/ Track1Exit
    \/ Track1Return
    \/ SetupN
    \/ OuterN
    \/ InnerN
    \/ RecordN
    \/ TailN
    \/ TailRecordN
    \/ OuterX
    \/ InnerX
    \/ RecordX
    \/ EvalX
    \/ DeleteX
    \/ TailX
    \/ TailRecordX
    \/ ReturnN
    \/ InvalidTrackint

Spec == Init /\ [][Next]_vars

TypeOK ==
    /\ ncalls \in Nat
    /\ pc \in {"start", "nt_loop", "ntx_loop", "nt_ret", "t1_setup",
               "t1_loop", "t1x_loop", "t1_ret", "tn_setup", "tn_outer",
               "tn_inner", "tn_tail", "tnx_outer", "tnx_inner", "tnx_eval",
               "tnx_del", "tnx_tail", "tn_ret", "invalid", "done"}
    /\ outcome \in {"running", "FinalState", "Trajectory", "SystemExit",
                    "IndexError", "UnboundLocalError"}
    /\ Len(t_arr) = Len(y_arr)
    /\ (pc = "done") = (outcome # "running")

\* ======================= properties =======================

\* The initial sample advanced k times.
RECURSIVE Advanced(_)
Advanced(k) ==
    IF k = 0 THEN <<t0, y0>>
    ELSE LET p == Advanced(k - 1) IN step(p[1], p[2])

\* Sample stored at index k of the tracking arrays.
SampleAt(k) == <<GetItem(t_arr, k), GetItem(y_arr, k)>>

CeilDiv(a, b) == (a + b - 1) \div b

NoTracking == IsNone(trackint)
EveryStep == trackint = Some(1)
IntervalMode == ~IsNone(trackint) /\ Val(trackint) > 1
InvalidInterval == ~IsNone(trackint) /\ Val(trackint) < 1
Finished == pc = "done"

\* Steps k in 1..nmax whose produced sample satisfies the exit condition.
ExitSteps ==
    IF IsNone(exitcond) THEN {}
    ELSE {k \in 1..nmax : ExitHolds(Advanced(k)[1], Advanced(k)[2])}

\* Number of steps a run without tracking is expected to take.
ExpectedSteps ==
    IF ExitSteps = {} THEN nmax
    ELSE CHOOSE k \in ExitSteps : \A m \in ExitSteps : k <= m

\* C1: interval tracking without exit condition applies the advance
\* operation exactly nmax times in total (nmax >= 1), and the last recorded
\* sample is the initial sample advanced exactly nmax times.
C1_ExactStepTotal ==
    (IntervalMode /\ IsNone(exitcond) /\ nmax >= 1 /\ Finished)
      => /\ outcome = "Trajectory"
         /\ ncalls = nmax
         /\ SampleAt(Val(i)) = Advanced(nmax)

\* C2: in every mode the number of applications of the advance operation
\* never exceeds nmax.
C2_StepBudget == ncalls <= nmax

\* C3: interval tracking without exit condition returns exactly
\* 1 + ceil(nmax / trackint) samples, each one produced by the run, the
\* ones before the trailing sample trackint steps apart.  (Stated for
\* nmax >= 1; the run with nmax = 0 is the subject of C5 and C10.)
C3_SampleCount ==
    (IntervalMode /\ IsNone(exitcond) /\ nmax >= 1 /\ Finished)
      => /\ outcome = "Trajectory"
         /\ Len(t_arr) = 1 + CeilDiv(nmax, Val(trackint))
         /\ Len(y_arr) = 1 + CeilDiv(nmax, Val(trackint))
         /\ \A k \in 0..(Len(t_arr) - 1) :
              \E m \in 0..ncalls : SampleAt(k) = Advanced(m)
         /\ \A k \in 0..(Len(t_arr) - 2) :
              SampleAt(k) = Advanced(k * Val(trackint))

\* C4: in both tracking modes, when the exit condition first holds at
\* tracked index k the returned sequences have length exactly k + 1.
C4_TruncatedAtExit ==
    (~NoTracking /\ ~IsNone(fired) /\ outcome = "Trajectory")
      => /\ Len(t_arr) = Val(fired) + 1
         /\ Len(y_arr) = Val(fired) + 1

\* C5: with nmax = 0 a run returns the initial sample unchanged and applies
\* the advance operation zero times, in every tracking mode.
C5_ZeroSteps ==
    (nmax = 0 /\ ~InvalidInterval)
      => /\ ncalls = 0
         /\ Finished =>
              IF NoTracking
                THEN outcome = "FinalState" /\ <<t, y>> = <<t0, y0>>
                ELSE /\ outcome = "Trajectory"
                     /\ t_arr = <<t0>>
                     /\ y_arr = <<y0>>

\* C6: a trackint that is present but below 1 ends the run in SystemExit,
\* with no application of the advance operation, no tracking array and no
\* result.
C6_InvalidIntervalFatal ==
    InvalidInterval
      => /\ ncalls = 0
         /\ t_arr = <<>> /\ y_arr = <<>>
         /\ <<t, y>> = <<t0, y0>>
         /\ outcome \in {"running", "SystemExit"}
         /\ Finished => outcome = "SystemExit"

C6_Witness ==
    /\ InvalidInterval
    /\ Val(trackint) < 0
    /\ nmax >= 1
    /\ Finished
    /\ outcome = "SystemExit"

\* C7: without tracking the run returns the initial sample advanced exactly
\* m times, m = nmax when the exit condition is absent or never holds and
\* otherwise the first k in 1..nmax whose produced sample satisfies it; the
\* exit condition is evaluated on produced samples only, never on the
\* initial one.
C7_NoTrackingResult ==
    NoTracking
      => /\ \A e \in 1..Len(evals) :
              /\ evals[e].n >= 1
              /\ <<evals[e].t, evals[e].y>> = Advanced(evals[e].n)
         /\ IsNone(exitcond) => evals = <<>>
         /\ Finished =>
              /\ outcome = "FinalState"
              /\ ncalls = ExpectedSteps
              /\ <<t, y>> = Advanced(ExpectedSteps)

C7_Witness ==
    /\ NoTracking
    /\ Finished
    /\ ~IsNone(exitcond)
    /\ t0 \in Val(exitcond)
    /\ ncalls >= 2
    /\ ncalls < nmax
    /\ <<t, y>> # <<t0, y0>>

\* C8: with trackint = 1 and no exit condition the trajectory has exactly
\* nmax + 1 samples and index k holds the initial sample advanced k times.
C8_EveryStepTrajectory ==
    (EveryStep /\ IsNone(exitcond) /\ Finished)
      => /\ outcome = "Trajectory"
         /\ Len(t_arr) = nmax + 1
         /\ Len(y_arr) = nmax + 1
         /\ \A k \in 0..nmax : SampleAt(k) = Advanced(k)

C8_Witness ==
    /\ EveryStep
    /\ IsNone(exitcond)
    /\ Finished
    /\ nmax >= 2
    /\ ncalls = nmax
    /\ Len(t_arr) = nmax + 1

\* One transition of an interval run with exit condition respects C9.
C9_Step ==
    (IntervalMode /\ ~IsNone(exitcond))
      => /\ (Len(evals') > Len(evals))
              => /\ lastop = "record"
                 /\ ncalls' = ncalls
                 /\ ncalls = Val(trackint) * Len(evals')
                 /\ Len(evals') = Val(i)
                 /\ SampleAt(Val(i)) = <<t, y>>
                 /\ <<evals'[Len(evals')].t, evals'[Len(evals')].y>> = <<t, y>>
         /\ (ncalls' > ncalls) => Len(evals') = Len(evals)
         /\ ~IsNone(fired) => ncalls' = ncalls
         /\ tailran' => (IsNone(fired') /\ Len(evals') = nmax)
         /\ (pc' = "done" /\ IsNone(fired') /\ Len(evals') = nmax) => tailran'

\* C9: in interval tracking with an exit condition, the condition is
\* evaluated only right after a tracked sample is recorded, once per
\* trackint applications of the advance operation; the trailing computation
\* runs if and only if the main loop completed without the condition ever
\* holding; after an early exit the advance operation is not applied again.
C9_ExitOnlyAtTrackedSamples == [][C9_Step]_vars

C9_Witness ==
    /\ IntervalMode
    /\ ~IsNone(exitcond)
    /\ Finished
    /\ outcome = "Trajectory"
    /\ ~IsNone(fired)
    /\ Val(fired) >= 2
    /\ ~tailran

\* C10: in interval tracking every index used on the tracking arrays is
\* assigned and within their capacity, so a run always ends by returning a
\* trajectory.
C10_NoIndexFault ==
    (IntervalMode /\ Finished) => outcome = "Trajectory"
====
